---- MODULE Spec2Model ----
(***************************************************************************)
(* Model of pathfinder.py: the tile GRID, the Start/End nodes, the open    *)
(* and closed lists, the four search algorithms (DFS, BFS, Greedy, AStar), *)
(* reconstructPath, the key / mouse / button handlers and the main loop.   *)
(*                                                                         *)
(* A Node object is a record [y, x, parent, gCost, hCost].  The only       *)
(* attributes the program ever reads from a parent are its coordinates     *)
(* (Node.__eq__ in reconstructPath), so parent holds <<y, x>> of the       *)
(* parent node, and <<>> stands for None.                                  *)
(*                                                                         *)
(* The program state is gathered in one record (the globals of main()),    *)
(* and every function of the program is an operator from state to state,   *)
(* so that a handler that calls another function is the composition.       *)
(***************************************************************************)
EXTENDS Integers, Sequences, FiniteSets

\* ------------------------------------------------------------------------
\* Dimensions.  The program uses a 30 x 30 grid (600 // 20); the model is
\* checked on a smaller grid.
GRID_WIDTH == 6
GRID_HEIGHT == 6
TILE_SIZE == 20

\* The part of the grid the pointer is moved over.
PointerReach == 3

\* The most walls painted on the grid before an uninterrupted run.
MaxWalls == 3

\* Tile values of the GRID matrix.
PATH == 0
WALL == 1
START_TILE == 2
END_TILE == 3
OPEN_TILE == 4
CLOSED_TILE == 5
FINAL_TILE == 6

VARIABLES GRID, START, END, ALGORITHM, DIAGONAL, open, closed, searching,
          found, pc, calls

vars == <<GRID, START, END, ALGORITHM, DIAGONAL, open, closed, searching,
          found, pc, calls>>

\* The globals as one record.  found is the local of the main loop that takes
\* the algorithm's return value; pc is "loop" while the main loop runs and
\* "reconstructPath" when control is caught in reconstructPath's while loop;
\* calls counts the ALGORITHM() calls made since the last start().
State == [GRID |-> GRID, START |-> START, END |-> END, ALGORITHM |-> ALGORITHM,
          DIAGONAL |-> DIAGONAL, open |-> open, closed |-> closed,
          searching |-> searching, found |-> found, pc |-> pc, calls |-> calls]

\* The variables hold the state s (s is evaluated once).
Is(s) ==
    \E t \in {s} :
        /\ GRID = t.GRID
        /\ START = t.START
        /\ END = t.END
        /\ ALGORITHM = t.ALGORITHM
        /\ DIAGONAL = t.DIAGONAL
        /\ open = t.open
        /\ closed = t.closed
        /\ searching = t.searching
        /\ found = t.found
        /\ pc = t.pc
        /\ calls = t.calls

\* The step leaves the state s.
Becomes(s) ==
    \E t \in {s} :
        /\ GRID' = t.GRID
        /\ START' = t.START
        /\ END' = t.END
        /\ ALGORITHM' = t.ALGORITHM
        /\ DIAGONAL' = t.DIAGONAL
        /\ open' = t.open
        /\ closed' = t.closed
        /\ searching' = t.searching
        /\ found' = t.found
        /\ pc' = t.pc
        /\ calls' = t.calls

\* ------------------------------------------------------------------------
\* Node

None == <<>>

Node(y, x, parent) == [y |-> y, x |-> x, parent |-> parent, gCost |-> 0, hCost |-> 0]

\* Node.__eq__: same coordinates, whatever the costs and the parent.
NodeEq(a, b) == a.y = b.y /\ a.x = b.x

getPos(node) == <<node.y, node.x>>

\* `node in list` of Python, which uses Node.__eq__.
In(node, list) == \E i \in 1..Len(list) : NodeEq(list[i], node)

\* A faulty variant of getNeighbors: the DIAGONAL flag is not looked at.
getNeighborsOrthogonal(node, diagonal) ==
    LET self == getPos(node)
    IN  <<Node(node.y - 1, node.x, self), Node(node.y, node.x + 1, self),
          Node(node.y + 1, node.x, self), Node(node.y, node.x - 1, self)>>

getNeighbors(node, diagonal) ==
    LET self == getPos(node)
        up == Node(node.y - 1, node.x, self)
        right == Node(node.y, node.x + 1, self)
        down == Node(node.y + 1, node.x, self)
        left == Node(node.y, node.x - 1, self)
        ur == Node(node.y - 1, node.x + 1, self)
        dr == Node(node.y + 1, node.x + 1, self)
        dl == Node(node.y + 1, node.x - 1, self)
        ul == Node(node.y - 1, node.x - 1, self)
    IN  IF diagonal
        THEN <<up, right, down, left, ur, dr, dl, ul>>
        ELSE <<up, right, down, left>>

fCost(node) == node.gCost + node.hCost

\* ------------------------------------------------------------------------
\* Helper functions

Abs(n) == IF n < 0 THEN -n ELSE n

Max(a, b) == IF a > b THEN a ELSE b

SetTile(grid, y, x, v) == [grid EXCEPT ![y][x] = v]

inGrid(x, y) == (x > 0 /\ x < GRID_WIDTH - 1) /\ (y > 0 /\ y < GRID_HEIGHT - 1)

isPath(grid, node) == grid[node.y][node.x] # WALL

getCoordsFromPosition(xPos, yPos) == <<yPos \div TILE_SIZE, xPos \div TILE_SIZE>>

\* A faulty variant of HCost: the Manhattan Distance whatever the movement.
HCostManhattan(s, node) ==
    Abs(s.END.y - node.y) + Abs(s.END.x - node.x)

\* A faulty variant of HCost: the test of DIAGONAL is the wrong way round.
HCostInverted(s, node) ==
    LET dy == Abs(s.END.y - node.y)
        dx == Abs(s.END.x - node.x)
    IN  IF s.DIAGONAL THEN dy + dx ELSE Max(dy, dx)

HCost(s, node) ==
    LET dy == Abs(s.END.y - node.y)
        dx == Abs(s.END.x - node.x)
    IN  IF s.DIAGONAL THEN Max(dy, dx) ELSE dy + dx

\* list.sort(key = ...): a stable sort; keys[i] is the key of list[i].
SortByKey(list, keys) ==
    LET n == Len(list)
        rank(i) == 1 + Cardinality({j \in 1..n :
                        keys[j] < keys[i] \/ (keys[j] = keys[i] /\ j < i)})
    IN  [p \in 1..n |-> list[CHOOSE i \in 1..n : rank(i) = p]]

setStart(s, x, y) ==
    LET g == IF s.START # None THEN SetTile(s.GRID, s.START.y, s.START.x, PATH) ELSE s.GRID
    IN  [s EXCEPT !.GRID = SetTile(g, y, x, START_TILE), !.START = Node(y, x, None)]

setEnd(s, x, y) ==
    LET g == IF s.END # None THEN SetTile(s.GRID, s.END.y, s.END.x, PATH) ELSE s.GRID
    IN  [s EXCEPT !.GRID = SetTile(g, y, x, END_TILE), !.END = Node(y, x, None)]

\* A faulty variant of toggleDiagonal: the test of `searching` is left out.
toggleDiagonalAnyTime(s) == [s EXCEPT !.DIAGONAL = ~s.DIAGONAL]

toggleDiagonal(s) ==
    IF ~s.searching THEN [s EXCEPT !.DIAGONAL = ~s.DIAGONAL] ELSE s

\* The interior tiles with the search colours wiped, Start and End re-marked.
ClearResults(s) ==
    LET wiped == [y \in 0..GRID_HEIGHT - 1 |-> [x \in 0..GRID_WIDTH - 1 |->
                    IF inGrid(x, y) /\ s.GRID[y][x] \in {OPEN_TILE, CLOSED_TILE, FINAL_TILE}
                    THEN PATH ELSE s.GRID[y][x]]]
    IN  SetTile(SetTile(wiped, s.START.y, s.START.x, START_TILE),
                s.END.y, s.END.x, END_TILE)

clear(s) ==
    LET wiped == [y \in 0..GRID_HEIGHT - 1 |-> [x \in 0..GRID_WIDTH - 1 |->
                    IF inGrid(x, y) THEN PATH ELSE s.GRID[y][x]]]
    IN  [s EXCEPT !.GRID = SetTile(SetTile(wiped, s.START.y, s.START.x, START_TILE),
                                   s.END.y, s.END.x, END_TILE),
                  !.searching = FALSE]

reset(s) ==
    [s EXCEPT !.open = <<s.START>>, !.closed = <<>>, !.GRID = ClearResults(s),
              !.searching = FALSE]

\* A faulty variant of start: closed.clear() is left out.
startKeepsClosed(s) ==
    [s EXCEPT !.open = <<s.START>>, !.GRID = ClearResults(s),
              !.searching = TRUE, !.calls = 0]

start(s) ==
    [s EXCEPT !.open = <<s.START>>, !.closed = <<>>, !.GRID = ClearResults(s),
              !.searching = TRUE, !.calls = 0]

selectAlgorithm(s, text) ==
    IF ~s.searching
    THEN start([s EXCEPT !.ALGORITHM =
                    IF text = "DFS" THEN "DFS"
                    ELSE IF text = "BFS" THEN "BFS"
                    ELSE IF text = "Greedy BFS" THEN "Greedy"
                    ELSE IF text = "A*" THEN "AStar"
                    ELSE s.ALGORITHM])
    ELSE s

\* ------------------------------------------------------------------------
\* Algorithms.  Each returns the state it leaves and its return value ret:
\* "False" (no path), "True" (End removed) or "None" (the implicit return).

Result(s, ret) == [s |-> s, ret |-> ret]

\* open.pop() of DFS and open.pop(0) of the others.
PopLast(list) == [node |-> list[Len(list)], rest |-> SubSeq(list, 1, Len(list) - 1)]

PopFirst(list) == [node |-> Head(list), rest |-> Tail(list)]

\* The removed node goes to closed and its tile takes the closed colour.
Close(s, popped) ==
    [s EXCEPT !.open = popped.rest,
              !.closed = Append(s.closed, popped.node),
              !.GRID = SetTile(s.GRID, popped.node.y, popped.node.x, CLOSED_TILE)]

\* A faulty variant of AdmitPlain: the test `neighbor not in closed` is left out.
AdmitPlainNoClosed(s, neighbor) ==
    IF isPath(s.GRID, neighbor) /\ ~In(neighbor, s.open)
    THEN [s EXCEPT !.open = Append(s.open, neighbor),
                   !.GRID = SetTile(s.GRID, neighbor.y, neighbor.x, OPEN_TILE)]
    ELSE s

\* A faulty variant of AdmitPlain: the test `neighbor not in open` is left out.
AdmitPlainNoOpen(s, neighbor) ==
    IF isPath(s.GRID, neighbor) /\ ~In(neighbor, s.closed)
    THEN [s EXCEPT !.open = Append(s.open, neighbor),
                   !.GRID = SetTile(s.GRID, neighbor.y, neighbor.x, OPEN_TILE)]
    ELSE s

\* One pass of the neighbor loop of DFS and BFS.
AdmitPlain(s, neighbor) ==
    IF isPath(s.GRID, neighbor) /\ ~In(neighbor, s.closed) /\ ~In(neighbor, s.open)
    THEN [s EXCEPT !.open = Append(s.open, neighbor),
                   !.GRID = SetTile(s.GRID, neighbor.y, neighbor.x, OPEN_TILE)]
    ELSE s

\* One pass of the neighbor loop of Greedy.
AdmitGreedy(s, neighbor) ==
    IF isPath(s.GRID, neighbor) /\ ~In(neighbor, s.closed) /\ ~In(neighbor, s.open)
    THEN LET n == [neighbor EXCEPT !.hCost = HCost(s, neighbor)]
         IN  [s EXCEPT !.open = Append(s.open, n),
                       !.GRID = SetTile(s.GRID, n.y, n.x, OPEN_TILE)]
    ELSE s

\* A faulty variant of Relax: `<=` in place of `<`.
RelaxOrEqual(list, n) ==
    [i \in 1..Len(list) |->
        IF NodeEq(list[i], n) /\ n.gCost <= list[i].gCost THEN n ELSE list[i]]

\* The inner loop of AStar: every entry of open equal to the neighbor and of
\* higher g-cost is replaced by it.
Relax(list, n) ==
    [i \in 1..Len(list) |->
        IF NodeEq(list[i], n) /\ n.gCost < list[i].gCost THEN n ELSE list[i]]

\* A faulty variant of AdmitAStar: the g-cost is copied from curr, not raised.
AdmitAStarSameCost(s, curr, neighbor) ==
    IF isPath(s.GRID, neighbor) /\ ~In(neighbor, s.closed)
    THEN LET n == [neighbor EXCEPT !.gCost = curr.gCost,
                                   !.hCost = HCost(s, neighbor)]
         IN  IF In(n, s.open)
             THEN [s EXCEPT !.open = Relax(s.open, n)]
             ELSE [s EXCEPT !.open = Append(s.open, n),
                            !.GRID = SetTile(s.GRID, n.y, n.x, OPEN_TILE)]
    ELSE s

\* One pass of the neighbor loop of AStar.
AdmitAStar(s, curr, neighbor) ==
    IF isPath(s.GRID, neighbor) /\ ~In(neighbor, s.closed)
    THEN LET n == [neighbor EXCEPT !.gCost = curr.gCost + 1,
                                   !.hCost = HCost(s, neighbor)]
         IN  IF In(n, s.open)
             THEN [s EXCEPT !.open = Relax(s.open, n)]
             ELSE [s EXCEPT !.open = Append(s.open, n),
                            !.GRID = SetTile(s.GRID, n.y, n.x, OPEN_TILE)]
    ELSE s

RECURSIVE ForPlain(_, _)
ForPlain(s, neighbors) ==
    IF neighbors = <<>> THEN s
    ELSE ForPlain(AdmitPlain(s, Head(neighbors)), Tail(neighbors))

RECURSIVE ForGreedy(_, _)
ForGreedy(s, neighbors) ==
    IF neighbors = <<>> THEN s
    ELSE ForGreedy(AdmitGreedy(s, Head(neighbors)), Tail(neighbors))

RECURSIVE ForAStar(_, _, _)
ForAStar(s, curr, neighbors) ==
    IF neighbors = <<>> THEN s
    ELSE ForAStar(AdmitAStar(s, curr, Head(neighbors)), curr, Tail(neighbors))

\* A faulty variant of DFS: a bare `return` on an empty open list.
DFSBareReturn(s) ==
    IF s.open = <<>> THEN Result(s, "None")
    ELSE LET popped == PopLast(s.open)
             curr == popped.node
             s1 == Close(s, popped)
         IN  IF NodeEq(curr, s.END) THEN Result(s1, "True")
             ELSE Result(ForPlain(s1, getNeighbors(curr, s.DIAGONAL)), "None")

\* A faulty variant of DFS: open.pop(0) in place of open.pop().
DFSPopsFirst(s) ==
    IF s.open = <<>> THEN Result(s, "False")
    ELSE LET popped == PopFirst(s.open)
             curr == popped.node
             s1 == Close(s, popped)
         IN  IF NodeEq(curr, s.END) THEN Result(s1, "True")
             ELSE Result(ForPlain(s1, getNeighbors(curr, s.DIAGONAL)), "None")

DFS(s) ==
    IF s.open = <<>> THEN Result(s, "False")
    ELSE LET popped == PopLast(s.open)
             curr == popped.node
             s1 == Close(s, popped)
         IN  IF NodeEq(curr, s.END) THEN Result(s1, "True")
             ELSE Result(ForPlain(s1, getNeighbors(curr, s.DIAGONAL)), "None")

\* A faulty variant of BFS: open.pop() in place of open.pop(0).
BFSPopsLast(s) ==
    IF s.open = <<>> THEN Result(s, "False")
    ELSE LET popped == PopLast(s.open)
             curr == popped.node
             s1 == Close(s, popped)
         IN  IF NodeEq(curr, s.END) THEN Result(s1, "True")
             ELSE Result(ForPlain(s1, getNeighbors(curr, s.DIAGONAL)), "None")

BFS(s) ==
    IF s.open = <<>> THEN Result(s, "False")
    ELSE LET popped == PopFirst(s.open)
             curr == popped.node
             s1 == Close(s, popped)
         IN  IF NodeEq(curr, s.END) THEN Result(s1, "True")
             ELSE Result(ForPlain(s1, getNeighbors(curr, s.DIAGONAL)), "None")

\* A faulty variant of Greedy: open.sort() is left out.
GreedyNoSort(s) ==
    IF s.open = <<>> THEN Result(s, "False")
    ELSE LET popped == PopFirst(s.open)
             curr == popped.node
             s1 == Close(s, popped)
         IN  IF NodeEq(curr, s.END) THEN Result(s1, "True")
             ELSE Result(ForGreedy(s1, getNeighbors(curr, s.DIAGONAL)), "None")

Greedy(s) ==
    IF s.open = <<>> THEN Result(s, "False")
    ELSE LET sorted == SortByKey(s.open, [i \in 1..Len(s.open) |-> s.open[i].hCost])
             popped == PopFirst(sorted)
             curr == popped.node
             s1 == Close(s, popped)
         IN  IF NodeEq(curr, s.END) THEN Result(s1, "True")
             ELSE Result(ForGreedy(s1, getNeighbors(curr, s.DIAGONAL)), "None")

\* A faulty variant of AStar: open is sorted by hCost, as in Greedy.
AStarSortsByHCost(s) ==
    IF s.open = <<>> THEN Result(s, "False")
    ELSE LET sorted == SortByKey(s.open, [i \in 1..Len(s.open) |-> s.open[i].hCost])
             popped == PopFirst(sorted)
             curr == popped.node
             s1 == Close(s, popped)
         IN  IF NodeEq(curr, s.END) THEN Result(s1, "True")
             ELSE Result(ForAStar(s1, curr, getNeighbors(curr, s.DIAGONAL)), "None")

AStar(s) ==
    IF s.open = <<>> THEN Result(s, "False")
    ELSE LET sorted == SortByKey(s.open, [i \in 1..Len(s.open) |-> fCost(s.open[i])])
             popped == PopFirst(sorted)
             curr == popped.node
             s1 == Close(s, popped)
         IN  IF NodeEq(curr, s.END) THEN Result(s1, "True")
             ELSE Result(ForAStar(s1, curr, getNeighbors(curr, s.DIAGONAL)), "None")

\* ALGORITHM(): the call through the global that names the selected function.
RunAlgorithm(s) ==
    IF s.ALGORITHM = "DFS" THEN DFS(s)
    ELSE IF s.ALGORITHM = "BFS" THEN BFS(s)
    ELSE IF s.ALGORITHM = "Greedy" THEN Greedy(s)
    ELSE AStar(s)

\* ------------------------------------------------------------------------
\* reconstructPath

\* The for loop: the first node of closed equal to the parent, or 0.
FindParent(list, parent) ==
    IF \E i \in 1..Len(list) : getPos(list[i]) = parent
    THEN CHOOSE i \in 1..Len(list) :
            /\ getPos(list[i]) = parent
            /\ \A j \in 1..i - 1 : getPos(list[j]) # parent
    ELSE 0

\* The while loop, from (curr, parent) on; fuel is the number of passes left
\* before a pass must repeat an earlier one.  A pass that finds no node equal
\* to the parent leaves curr and parent as they are, so the loop never ends;
\* so does a walk that outlasts the fuel.
RECURSIVE Walk(_, _, _, _, _)
Walk(grid, list, curr, parent, fuel) ==
    IF parent = None THEN [GRID |-> grid, ends |-> TRUE]
    ELSE LET g == SetTile(grid, curr.y, curr.x, FINAL_TILE)
             i == FindParent(list, parent)
         IN  IF i = 0 \/ fuel = 0 THEN [GRID |-> g, ends |-> FALSE]
             ELSE Walk(g, list, list[i], list[i].parent, fuel - 1)

\* A faulty variant of reconstructPath: the End tile is not marked again.
reconstructPathNoEnd(s) ==
    LET popped == PopLast(s.closed)
        curr == popped.node
        w == Walk(s.GRID, popped.rest, curr, curr.parent, Len(s.closed))
    IN  IF w.ends
        THEN [s EXCEPT !.closed = popped.rest,
                       !.GRID = SetTile(w.GRID, s.START.y, s.START.x, START_TILE)]
        ELSE [s EXCEPT !.closed = popped.rest, !.GRID = w.GRID,
                       !.pc = "reconstructPath"]

reconstructPath(s) ==
    LET popped == PopLast(s.closed)
        curr == popped.node
        w == Walk(s.GRID, popped.rest, curr, curr.parent, Len(s.closed))
    IN  IF w.ends
        THEN [s EXCEPT !.closed = popped.rest,
                       !.GRID = SetTile(SetTile(w.GRID, s.START.y, s.START.x, START_TILE),
                                        s.END.y, s.END.x, END_TILE)]
        ELSE [s EXCEPT !.closed = popped.rest, !.GRID = w.GRID,
                       !.pc = "reconstructPath"]

\* ------------------------------------------------------------------------
\* Event handlers

keyHandler(s, key, xPos, yPos) ==
    IF key = "r" THEN reset(s)
    ELSE IF key = "d" THEN toggleDiagonal(s)
    ELSE IF key = "c" THEN clear(s)
    ELSE IF ~s.searching
         THEN LET c == getCoordsFromPosition(xPos, yPos)
                  y == c[1]
                  x == c[2]
              IN  IF key = "space" THEN start(s)
                  ELSE IF key = "s"
                       THEN IF inGrid(x, y) /\ <<y, x>> # getPos(s.END)
                            THEN setStart(s, x, y) ELSE s
                  ELSE IF key = "e"
                       THEN IF inGrid(x, y) /\ <<y, x>> # getPos(s.START)
                            THEN setEnd(s, x, y) ELSE s
                  ELSE s
         ELSE s

\* A faulty variant of mouseHandler: the tile is only tested to be in the
\* matrix, border included.
mouseHandlerWithBorder(s, xPos, yPos, clickType) ==
    LET c == getCoordsFromPosition(xPos, yPos)
        y == c[1]
        x == c[2]
    IN  IF x \in 0..GRID_WIDTH - 1 /\ y \in 0..GRID_HEIGHT - 1 /\ s.GRID[y][x] \in {PATH, WALL}
        THEN IF clickType = 1 THEN [s EXCEPT !.GRID = SetTile(s.GRID, y, x, WALL)]
             ELSE IF clickType = 3 THEN [s EXCEPT !.GRID = SetTile(s.GRID, y, x, PATH)]
             ELSE s
        ELSE s

mouseHandler(s, xPos, yPos, clickType) ==
    LET c == getCoordsFromPosition(xPos, yPos)
        y == c[1]
        x == c[2]
    IN  IF inGrid(x, y) /\ s.GRID[y][x] \in {PATH, WALL}
        THEN IF clickType = 1 THEN [s EXCEPT !.GRID = SetTile(s.GRID, y, x, WALL)]
             ELSE IF clickType = 3 THEN [s EXCEPT !.GRID = SetTile(s.GRID, y, x, PATH)]
             ELSE s
        ELSE s

\* Button.draw on a click: the on-click function of the button with that text.
onClick(s, text) ==
    IF text \in {"DFS", "BFS", "Greedy BFS", "A*"} THEN selectAlgorithm(s, text)
    ELSE IF text = "Toggle Diagonal Movement (D Key)" THEN toggleDiagonal(s)
    ELSE IF text = "Reset (R Key)" THEN reset(s)
    ELSE IF text = "Clear (C Key)" THEN clear(s)
    ELSE start(s)

\* A faulty variant of SearchStep: searching stays True after a False result.
SearchStepNoStop(s) ==
    LET r == RunAlgorithm(s)
        s1 == [r.s EXCEPT !.found = r.ret, !.calls = s.calls + 1]
    IN  IF r.ret = "True"
        THEN LET s2 == reconstructPath(s1)
             IN  IF s2.pc = "loop" THEN [s2 EXCEPT !.searching = FALSE] ELSE s2
        ELSE s1

\* The search step at the end of one pass of the game loop.
SearchStep(s) ==
    LET r == RunAlgorithm(s)
        s1 == [r.s EXCEPT !.found = r.ret, !.calls = s.calls + 1]
    IN  IF r.ret = "False" THEN [s1 EXCEPT !.searching = FALSE]
        ELSE IF r.ret = "True"
             THEN LET s2 == reconstructPath(s1)
                  IN  IF s2.pc = "loop" THEN [s2 EXCEPT !.searching = FALSE] ELSE s2
        ELSE s1

\* ------------------------------------------------------------------------
\* The program

Keys == {"r", "d", "c", "space", "s", "e", "other"}

Buttons == {"DFS", "BFS", "Greedy BFS", "A*", "Toggle Diagonal Movement (D Key)",
            "Reset (R Key)", "Clear (C Key)", "Begin Search (SPACE Key)"}

ClickTypes == {1, 2, 3}

\* Pointer positions <<xPos, yPos>>: the middle of every tile at most
\* PointerReach tiles (across plus down) from the top left corner of the
\* window, of the bottom right tile of the grid, and of one tile of the side
\* panel to the right of the grid.
Positions ==
    {<<x * TILE_SIZE + TILE_SIZE \div 2, y * TILE_SIZE + TILE_SIZE \div 2>> :
        <<x, y>> \in {c \in (0..GRID_WIDTH) \X (0..GRID_HEIGHT - 1) :
                        c[1] + c[2] <= PointerReach
                        \/ c = <<GRID_WIDTH - 1, GRID_HEIGHT - 1>>
                        \/ c = <<GRID_WIDTH, 0>>}}

\* The keys whose handling reads the pointer position.
PointerKeys == {"s", "e"}

\* The default grid of main(): a wall all around, every other tile a path.
DefaultGrid ==
    [y \in 0..GRID_HEIGHT - 1 |-> [x \in 0..GRID_WIDTH - 1 |->
        IF x = 0 \/ x = GRID_WIDTH - 1 \/ y = 0 \/ y = GRID_HEIGHT - 1
        THEN WALL ELSE PATH]]

InitState ==
    LET s0 == [GRID |-> DefaultGrid, START |-> None, END |-> None,
               ALGORITHM |-> "AStar", DIAGONAL |-> TRUE, open |-> <<>>,
               closed |-> <<>>, searching |-> FALSE, found |-> "None",
               pc |-> "loop", calls |-> 0]
    IN  setEnd(setStart(s0, 1, 1), GRID_WIDTH - 2, GRID_HEIGHT - 2)

Init == Is(InitState)

KeyDown ==
    /\ pc = "loop"
    /\ \E key \in Keys :
          \E pos \in IF key \in PointerKeys THEN Positions
                      ELSE {<<TILE_SIZE \div 2, TILE_SIZE \div 2>>} :
                Becomes(keyHandler(State, key, pos[1], pos[2]))

Mouse ==
    /\ pc = "loop"
    /\ \E clickType \in ClickTypes, pos \in Positions :
          Becomes(mouseHandler(State, pos[1], pos[2], clickType))

Click ==
    /\ pc = "loop"
    /\ \E text \in Buttons : Becomes(onClick(State, text))

Tick ==
    /\ pc = "loop"
    /\ searching
    /\ Becomes(SearchStep(State))

Next == KeyDown \/ Mouse \/ Click \/ Tick

Spec == Init /\ [][Next]_vars

\* ------------------------------------------------------------------------
\* Uninterrupted runs: start() on a grid the editing keys and the mouse can
\* produce (at most MaxWalls interior walls, Start on an interior tile near the
\* top left corner, End on an interior tile near the bottom right corner), any
\* algorithm and either movement, then search steps only.

Interior == {c \in (0..GRID_HEIGHT - 1) \X (0..GRID_WIDTH - 1) : inGrid(c[2], c[1])}

Algorithms == {"DFS", "BFS", "Greedy", "AStar"}

EditedState(walls, st, en, algorithm, diagonal) ==
    [InitState EXCEPT
        !.GRID = [y \in 0..GRID_HEIGHT - 1 |-> [x \in 0..GRID_WIDTH - 1 |->
                    IF <<y, x>> = st THEN START_TILE
                    ELSE IF <<y, x>> = en THEN END_TILE
                    ELSE IF <<y, x>> \in walls THEN WALL
                    ELSE DefaultGrid[y][x]]],
        !.START = Node(st[1], st[2], None),
        !.END = Node(en[1], en[2], None),
        !.ALGORITHM = algorithm,
        !.DIAGONAL = diagonal]

\* The tiles <<y, x>> at most PointerReach tiles from the top left tile of the
\* grid, and those as near to its bottom right tile.
StartTiles == {c \in Interior : c[1] + c[2] <= PointerReach}

EndTiles ==
    {c \in Interior : (GRID_HEIGHT - 1 - c[1]) + (GRID_WIDTH - 1 - c[2]) <= PointerReach}

\* The sets of at most MaxWalls interior tiles.
WallSets == {walls \in SUBSET Interior : Cardinality(walls) <= MaxWalls}

InitRun ==
    \E st \in StartTiles, algorithm \in Algorithms, diagonal \in BOOLEAN :
        \E en \in EndTiles \ {st} :
        \E walls \in {w \in WallSets : w \cap {st, en} = {}} :
            Is(start(EditedState(walls, st, en, algorithm, diagonal)))

NextRun == Tick

SpecRun == InitRun /\ [][NextRun]_vars

\* ------------------------------------------------------------------------
\* Reference notions the properties are stated with.

\* Two tiles <<y, x>> one move apart under the movement model.
Adjacent(a, b, diagonal) ==
    /\ a # b
    /\ Abs(a[1] - b[1]) <= 1
    /\ Abs(a[2] - b[2]) <= 1
    /\ (diagonal \/ Abs(a[1] - b[1]) + Abs(a[2] - b[2]) = 1)

Tiles == (0..GRID_HEIGHT - 1) \X (0..GRID_WIDTH - 1)

Passable(grid) == {c \in Tiles : grid[c[1]][c[2]] # WALL}

\* The least number of moves from a tile of `layer` to `target` through the
\* tiles of `free`, `d` moves having led to `layer`; -1 when there is none.
RECURSIVE Moves(_, _, _, _, _, _)
Moves(layer, seen, target, free, diagonal, d) ==
    IF target \in layer THEN d
    ELSE IF layer = {} THEN -1
    ELSE LET next == {c \in free \ seen : \E b \in layer : Adjacent(b, c, diagonal)}
         IN  Moves(next, seen \cup next, target, free, diagonal, d + 1)

\* The shortest path length from Start to End on the current grid.
Distance ==
    Moves({getPos(START)}, {getPos(START)}, getPos(END), Passable(GRID), DIAGONAL, 0)

EndReachable == Distance >= 0

\* The coordinates met from `node` back along the parents found in `list`,
\* `node` first; the walk ends with None where a parent is not in `list`, or
\* where it has gone on for more than `fuel` links.
RECURSIVE Chain(_, _, _)
Chain(node, list, fuel) ==
    IF node.parent = None THEN <<getPos(node)>>
    ELSE IF fuel = 0 \/ ~\E i \in 1..Len(list) : getPos(list[i]) = node.parent
         THEN <<getPos(node), None>>
    ELSE <<getPos(node)>>
            \o Chain(list[CHOOSE i \in 1..Len(list) : getPos(list[i]) = node.parent],
                     list, fuel - 1)

\* A chain that runs from the End coordinate to the Start coordinate.
WellFormed(chain) ==
    /\ \A i \in 1..Len(chain) : chain[i] # None
    /\ chain[1] = getPos(END)
    /\ chain[Len(chain)] = getPos(START)

\* The entry of the open list that is equal to the End node.
EndEntry == open[CHOOSE i \in 1..Len(open) : NodeEq(open[i], END)]

\* The path a Success step reports: the chain of its End node through closed.
Path == Chain(EndEntry, closed, Len(closed))

\* BFS run from start() on the current grid until it returns a result.
RECURSIVE RunBFS(_)
RunBFS(s) ==
    LET r == BFS(s)
    IN  IF r.ret = "None" THEN RunBFS(r.s) ELSE r

\* The length of the path BFS reports on the current grid, -1 on Failure.
BFSPathLength ==
    LET r == RunBFS(start(State))
        cl == r.s.closed
    IN  IF r.ret = "True" THEN Len(Chain(cl[Len(cl)], cl, Len(cl))) - 1 ELSE -1

FinalTiles(grid) == {c \in Tiles : grid[c[1]][c[2]] = FINAL_TILE}

\* A search step is being taken; one that reports Success.
SearchStepTaken == searching /\ pc = "loop" /\ calls' = calls + 1

SuccessStep == SearchStepTaken /\ found' = "True"

\* ------------------------------------------------------------------------
\* Properties

\* C1: after any number of steps of a run, no coordinate appears more than
\* once in the closed list (Visited), whatever the algorithm.
C1_NoRevisit ==
    \A i, j \in 1..Len(closed) : i # j => ~NodeEq(closed[i], closed[j])

C1_Witness ==
    /\ searching
    /\ calls >= 4
    /\ Len(closed) >= 4

\* C2: an uninterrupted run ends with Failure exactly when End cannot be
\* reached from Start through non-wall tiles under the movement model in
\* use, and with Success otherwise; Success is reported by the step that
\* removes the End node from the open list, and by no other step.
C2_Result ==
    /\ [](found = "False" => ~EndReachable)
    /\ [](found = "True" => EndReachable)
    /\ [][SearchStepTaken =>
            /\ found' = "True" <=> (In(END, open) /\ ~In(END, open'))
            /\ found' = "False" <=> open = <<>>]_vars

C2_Witness ==
    /\ found = "False"
    /\ ~searching
    /\ DIAGONAL
    /\ calls >= 4

\* C3: a run reaches Success or Failure within GRID_WIDTH * GRID_HEIGHT
\* calls of the algorithm.
C3_Termination ==
    /\ calls <= GRID_WIDTH * GRID_HEIGHT
    /\ found = "None" => calls < GRID_WIDTH * GRID_HEIGHT

C3_Witness ==
    /\ found # "None"
    /\ calls >= (GRID_WIDTH - 2) * (GRID_HEIGHT - 2)

\* C4: with diagonal movement off, the path BFS reports on Success (the links
\* from the End node back to the Start node) is as long as the shortest
\* orthogonal path from Start to End.
C4_BFSOptimal ==
    [][SuccessStep /\ ALGORITHM = "BFS" /\ ~DIAGONAL =>
            /\ WellFormed(Path)
            /\ Len(Path) - 1 = Distance]_vars

C4_Witness ==
    /\ found = "True"
    /\ ~searching
    /\ ALGORITHM = "BFS"
    /\ ~DIAGONAL
    /\ Cardinality(FinalTiles(GRID)) + 1 = Distance
    /\ Distance > Abs(END.y - START.y) + Abs(END.x - START.x)

\* C5: with diagonal movement off or on, the path AStar reports on Success is
\* as long as the shortest path under the movement in use, which is also the
\* length of the path BFS reports on the same grid.
C5_AStarOptimal ==
    [][SuccessStep /\ ALGORITHM = "AStar" =>
            /\ WellFormed(Path)
            /\ Len(Path) - 1 = Distance
            /\ Len(Path) - 1 = BFSPathLength]_vars

C5_Witness ==
    /\ found = "True"
    /\ ~searching
    /\ ALGORITHM = "AStar"
    /\ DIAGONAL
    /\ Cardinality(FinalTiles(GRID)) + 1 = Distance
    /\ Distance > Max(Abs(END.y - START.y), Abs(END.x - START.x))

\* C6: a Success step, reconstructPath included, leaves FINAL_TILE on exactly
\* the coordinates of the chain from the End node back to the Start node other
\* than Start and End, leaves the Start tile START_TILE and the End tile
\* END_TILE, and reconstructPath returns: every parent it looks for is in
\* closed.
C6_Reconstruct ==
    /\ [](pc = "loop")
    /\ [][SuccessStep =>
            /\ WellFormed(Path)
            /\ FinalTiles(GRID') =
                  {Path[i] : i \in 1..Len(Path)} \ {getPos(START), getPos(END)}
            /\ GRID'[START.y][START.x] = START_TILE
            /\ GRID'[END.y][END.x] = END_TILE
            /\ pc' = "loop"
            /\ ~searching']_vars

C6_Witness ==
    /\ found = "True"
    /\ ~searching
    /\ Cardinality(FinalTiles(GRID)) >= 6
    /\ GRID[START.y][START.x] = START_TILE
    /\ GRID[END.y][END.x] = END_TILE

\* C7: in the chain a Success step reconstructs, every two consecutive nodes
\* are one move apart under the movement in use, and for AStar the number of
\* links of the chain is the gCost of the End node.
C7_ChainConsistent ==
    [][SuccessStep =>
            /\ WellFormed(Path)
            /\ \A i \in 1..Len(Path) - 1 : Adjacent(Path[i], Path[i + 1], DIAGONAL)
            /\ ALGORITHM = "AStar" => Len(Path) - 1 = EndEntry.gCost]_vars

C7_Witness ==
    /\ found = "True"
    /\ ~searching
    /\ ALGORITHM = "AStar"
    /\ DIAGONAL
    /\ Cardinality(FinalTiles(GRID)) >= 3
    /\ \E c \in FinalTiles(GRID) : c[1] # c[2]

\* C8: in every reachable state exactly one tile is START_TILE and exactly one
\* is END_TILE: no search step overwrites the Start tile or the End tile.
C8_OneStartOneEnd ==
    /\ Cardinality({c \in Tiles : GRID[c[1]][c[2]] = START_TILE}) = 1
    /\ Cardinality({c \in Tiles : GRID[c[1]][c[2]] = END_TILE}) = 1

\* What start() and reset() promise of the state t they leave, called in the
\* current state.
SearchCleared(t) ==
    \A u \in {t} :
        /\ u.open = <<START>>
        /\ u.closed = <<>>
        /\ \A c \in Tiles : u.GRID[c[1]][c[2]] \notin {OPEN_TILE, CLOSED_TILE, FINAL_TILE}
        /\ \A c \in Tiles : u.GRID[c[1]][c[2]] = WALL <=> GRID[c[1]][c[2]] = WALL
        /\ u.START = START
        /\ u.END = END
        /\ u.GRID[START.y][START.x] = START_TILE
        /\ u.GRID[END.y][END.x] = END_TILE

\* Every node of the open and closed lists descends from the Start node of
\* the run in progress.
OwnNodesOnly ==
    IF closed = <<>> THEN open = <<START>>
    ELSE /\ closed[1] = START
         /\ \A i \in 2..Len(closed) :
                \E j \in 1..Len(closed) : getPos(closed[j]) = closed[i].parent
         /\ \A i \in 1..Len(open) :
                \E j \in 1..Len(closed) : getPos(closed[j]) = open[i].parent

\* C9: in any reachable state, start() (also through selectAlgorithm) and
\* reset() leave open holding the Start node alone and closed empty, no tile
\* with a search colour, the walls and the Start and End positions as they
\* were; start() leaves searching true and reset() false.  So the steps of a
\* run only meet nodes of that run.
C9_BeginAndReset ==
    \A now \in {State} :
        /\ \A t \in {start(now)} : SearchCleared(t) /\ t.searching
        /\ \A t \in {reset(now)} : SearchCleared(t) /\ ~t.searching
        /\ ~searching =>
              \A text \in {"DFS", "BFS", "Greedy BFS", "A*"} :
                  \A t \in {selectAlgorithm(now, text)} : SearchCleared(t) /\ t.searching
        /\ searching /\ calls = 0 => SearchCleared(now)
        /\ searching => OwnNodesOnly

C9_Witness ==
    /\ searching
    /\ calls = 0
    /\ found = "False"
    /\ open = <<START>>
    /\ closed = <<>>
    /\ \E c \in Interior : GRID[c[1]][c[2]] = WALL

\* C10: while searching is true the algorithm, the movement flag and the
\* Start and End nodes do not change: the algorithm buttons, the D key and
\* its button, and the S and E keys are ignored.
C10_FixedWhileSearching ==
    /\ [](searching =>
            /\ \A text \in {"DFS", "BFS", "Greedy BFS", "A*"} :
                    selectAlgorithm(State, text) = State
            /\ toggleDiagonal(State) = State
            /\ \A key \in {"d", "s", "e"}, pos \in Positions :
                    keyHandler(State, key, pos[1], pos[2]) = State)
    /\ [][searching =>
            /\ ALGORITHM' = ALGORITHM
            /\ DIAGONAL' = DIAGONAL
            /\ START' = START
            /\ END' = END]_vars

C10_Witness ==
    /\ searching
    /\ calls >= 2
    /\ ALGORITHM = "Greedy"
    /\ ~DIAGONAL
    /\ getPos(START) # <<1, 1>>

\* C11: while searching is true no tile changes between wall and path: the
\* mouse events that arrive between two steps of a run leave the walls as
\* they are, so every step of the run meets the same walls.
C11_WallsFixedWhileSearching ==
    [][searching /\ searching' =>
            \A c \in Tiles : GRID'[c[1]][c[2]] = WALL <=> GRID[c[1]][c[2]] = WALL]_vars

\* C12: the main loop calls the algorithm once per pass and only while
\* searching is true; after a call has returned True or False no call is made
\* until start() has run again; reconstructPath runs once in the pass of a
\* call that returned True (closed, which the call extended by the End node,
\* is popped once) and not after False or on an empty closed list.
C12_OneStepPerTick ==
    /\ [](searching /\ calls > 0 => found = "None")
    /\ [](searching => \A r \in {RunAlgorithm(State)} :
                            r.ret = "True" => r.s.closed # <<>>)
    /\ [][~searching /\ searching' =>
            calls' = 0 /\ open' = <<START'>> /\ closed' = <<>>]_vars
    /\ [][calls' # calls =>
            \/ calls' = 0 /\ searching' /\ open' = <<START'>> /\ closed' = <<>>
            \/ /\ searching
               /\ calls' = calls + 1
               /\ found' = "None" => searching' /\ Len(closed') = Len(closed) + 1
               /\ found' = "False" =>
                     ~searching' /\ closed' = closed /\ open' = open /\ GRID' = GRID
               /\ found' = "True" =>
                     ~searching' /\ closed' = closed /\ pc' = "loop"]_vars

C12_Witness ==
    /\ found = "True"
    /\ ~searching
    /\ calls >= 3
    /\ Len(closed) >= 2
    /\ ALGORITHM = "BFS"

\* The middle of every tile of the grid and of the column of the side panel
\* next to it, as pointer positions <<xPos, yPos>>.
EveryPosition ==
    {<<x * TILE_SIZE + TILE_SIZE \div 2, y * TILE_SIZE + TILE_SIZE \div 2>> :
        <<x, y>> \in (0..GRID_WIDTH) \X (0..GRID_HEIGHT - 1)}

\* The tile <<y, x>> under a pointer position.
TileAt(pos) == <<pos[2] \div TILE_SIZE, pos[1] \div TILE_SIZE>>

\* C13: the mouse and the S and E keys change nothing when the pointer is
\* outside the interior tiles, so every border tile is a wall in every
\* reachable state; the mouse never changes the Start tile or the End tile;
\* the S key on the End tile and the E key on the Start tile change nothing,
\* so Start and End are never the same tile.
C13_EditingInBounds ==
    /\ \A c \in Tiles \ Interior : GRID[c[1]][c[2]] = WALL
    /\ getPos(START) \in Interior
    /\ getPos(END) \in Interior
    /\ getPos(START) # getPos(END)
    /\ \A now \in {State} : \A pos \in EveryPosition :
          /\ \A clickType \in ClickTypes :
                \A t \in {mouseHandler(now, pos[1], pos[2], clickType)} :
                    /\ TileAt(pos) \notin Interior => t = now
                    /\ t.GRID[START.y][START.x] = GRID[START.y][START.x]
                    /\ t.GRID[END.y][END.x] = GRID[END.y][END.x]
          /\ TileAt(pos) \notin Interior =>
                \A key \in PointerKeys : keyHandler(now, key, pos[1], pos[2]) = now
          /\ TileAt(pos) = getPos(END) => keyHandler(now, "s", pos[1], pos[2]) = now
          /\ TileAt(pos) = getPos(START) => keyHandler(now, "e", pos[1], pos[2]) = now

C13_Witness ==
    /\ ~searching
    /\ getPos(START) = <<1, 2>>
    /\ getPos(END) = <<2, 1>>
    /\ GRID[1][1] = WALL
    /\ GRID[START.y][START.x] = START_TILE
    /\ GRID[END.y][END.x] = END_TILE

\* C14: clear() discards the search state of the run it ends: it leaves
\* closed empty and no node in open that the run admitted, every interior
\* tile but Start and End a path, and searching false.
C14_ClearDiscards ==
    \A t \in {clear(State)} :
        /\ t.closed = <<>>
        /\ \A i \in 1..Len(t.open) : t.open[i] = START
        /\ \A c \in Interior \ {getPos(START), getPos(END)} : t.GRID[c[1]][c[2]] = PATH
        /\ t.GRID[START.y][START.x] = START_TILE
        /\ t.GRID[END.y][END.x] = END_TILE
        /\ ~t.searching

\* C15: the algorithm called again after it has returned False signals
\* InvalidRunState to its caller in place of returning a result.
C15_StepAfterFailureRaises ==
    found = "False" /\ ~searching => RunAlgorithm(State).ret = "InvalidRunState"

\* The coordinates of the nodes of a list.
Coords(list) == {getPos(list[i]) : i \in 1..Len(list)}

\* C16: a step that expands a node leaves CLOSED_TILE on the tile of the node
\* it removed and OPEN_TILE on the tile of every neighbor it admitted to
\* open, but for the End tile, which stays as it was; every other tile stays
\* as it was.
C16_ExpansionColours ==
    [][SearchStepTaken /\ found' = "None" =>
            \A c \in Tiles :
                GRID'[c[1]][c[2]] =
                    IF c = getPos(closed'[Len(closed')]) THEN CLOSED_TILE
                    ELSE IF c \in Coords(open') \ Coords(open) /\ c # getPos(END)
                         THEN OPEN_TILE
                    ELSE GRID[c[1]][c[2]]]_vars

\* No two nodes of the list have the same coordinates.
NoDuplicates(list) == \A i, j \in 1..Len(list) : i # j => ~NodeEq(list[i], list[j])

\* No node of the list is on a wall tile.
OffWalls(list) == \A i \in 1..Len(list) : GRID[list[i].y][list[i].x] # WALL

\* C17: a step of DFS, BFS or Greedy admits a neighbor of the node it removed
\* exactly when the neighbor's tile is not a wall and its coordinates are
\* neither in closed nor in open.  So open never holds two nodes of the same
\* coordinates, open and closed share no coordinates, no node of either is on
\* a wall, and the parent recorded with a node is the node that admitted it
\* first and never changes.
C17_Admission ==
    /\ [](ALGORITHM # "AStar" =>
            /\ NoDuplicates(open)
            /\ Coords(open) \cap Coords(closed) = {}
            /\ OffWalls(open)
            /\ OffWalls(closed))
    /\ [][SearchStepTaken /\ ALGORITHM # "AStar" /\ found' = "None" =>
            \A curr \in {closed'[Len(closed')]} :
                /\ Coords(open') \ Coords(open) =
                      {c \in Tiles : /\ Adjacent(getPos(curr), c, DIAGONAL)
                                     /\ GRID[c[1]][c[2]] # WALL
                                     /\ c \notin Coords(closed)
                                     /\ c \notin Coords(open)}
                /\ \A j \in 1..Len(open') :
                      IF getPos(open'[j]) \in Coords(open)
                      THEN \E i \in 1..Len(open) : open[i] = open'[j]
                      ELSE open'[j].parent = getPos(curr)
                /\ \E i \in 1..Len(open) : open[i] = curr
                /\ closed' = Append(closed, curr)]_vars

C17_Witness ==
    /\ searching
    /\ ALGORITHM = "BFS"
    /\ \E i \in 1..Len(open) : \E j, k \in 1..Len(closed) :
          /\ j < k
          /\ Adjacent(getPos(closed[j]), getPos(open[i]), DIAGONAL)
          /\ Adjacent(getPos(closed[k]), getPos(open[i]), DIAGONAL)
          /\ open[i].parent = getPos(closed[j])

\* C18: a step of AStar replaces the entry of open that has the coordinates
\* of a neighbor of the removed node by the candidate (parent the removed
\* node, gCost one more than its gCost, hCost of the coordinates), at the
\* entry's place in the list, exactly when the candidate's gCost is lower
\* than the entry's; the other entries stay as they are; the entries it adds
\* have coordinates that were neither in open nor in closed.  open never
\* holds two entries of the same coordinates.
C18_Relaxation ==
    /\ [](ALGORITHM = "AStar" =>
            /\ NoDuplicates(open)
            /\ Coords(open) \cap Coords(closed) = {})
    /\ [][SearchStepTaken /\ ALGORITHM = "AStar" /\ found' = "None" =>
            LET curr == closed'[Len(closed')]
                rest == Tail(SortByKey(open, [i \in 1..Len(open) |-> fCost(open[i])]))
                candidate(c) ==
                    [y |-> c[1], x |-> c[2], parent |-> getPos(curr),
                     gCost |-> curr.gCost + 1,
                     hCost |-> HCost(State, [y |-> c[1], x |-> c[2]])]
            IN  /\ Len(open') >= Len(rest)
                /\ \A i \in 1..Len(rest) :
                      open'[i] =
                          IF /\ Adjacent(getPos(curr), getPos(rest[i]), DIAGONAL)
                             /\ curr.gCost + 1 < rest[i].gCost
                          THEN candidate(getPos(rest[i]))
                          ELSE rest[i]
                /\ \A i \in Len(rest) + 1..Len(open') :
                      /\ getPos(open'[i]) \notin Coords(open) \cup Coords(closed')
                      /\ open'[i] = candidate(getPos(open'[i]))]_vars

\* A replacement has just taken place: an entry of open that an earlier node
\* of closed has for a neighbor, and so admitted, has the node removed last
\* for its parent.
C18_Witness ==
    /\ searching
    /\ ALGORITHM = "AStar"
    /\ \E i \in 1..Len(open) : \E k \in 1..Len(closed) - 1 :
          /\ Adjacent(getPos(closed[k]), getPos(open[i]), DIAGONAL)
          /\ open[i].parent = getPos(closed[Len(closed)])
          /\ open[i].gCost = closed[Len(closed)].gCost + 1

\* The place of the coordinates c in the list getNeighbors makes for the node.
NeighborIndex(node, c) ==
    CHOOSE j \in 1..8 : getPos(getNeighbors(node, TRUE)[j]) = c

\* When the node of coordinates c entered open in the run in progress: the
\* Start node first, any other with the expansion of the first node of closed
\* it is a neighbor of, in the order of getNeighbors.
InsertedAt(c) ==
    IF c = getPos(START) THEN 0
    ELSE LET k == CHOOSE k \in 1..Len(closed) :
                      /\ Adjacent(getPos(closed[k]), c, DIAGONAL)
                      /\ \A m \in 1..k - 1 : ~Adjacent(getPos(closed[m]), c, DIAGONAL)
         IN  8 * k + NeighborIndex(closed[k], c)

\* The least of the keys.
MinKey(keys) == CHOOSE m \in {keys[i] : i \in DOMAIN keys} : \A i \in DOMAIN keys : m <= keys[i]

\* The place in open of the node the step removes.
RemovedIndex == CHOOSE i \in 1..Len(open) : getPos(open[i]) \notin Coords(open')

\* C19 as stated: a step of AStar removes a node of least fCost in open and,
\* among the nodes of that fCost, the one that entered open first (an entry
\* replaced in place counts from when the entry it replaced entered).
C19_RemovesFirstInserted ==
    [][SearchStepTaken /\ ALGORITHM = "AStar" /\ open # <<>> =>
            LET keys == [i \in 1..Len(open) |-> fCost(open[i])]
                r == RemovedIndex
            IN  /\ keys[r] = MinKey(keys)
                /\ \A i \in 1..Len(open) :
                      keys[i] = keys[r] =>
                          InsertedAt(getPos(open[r])) <= InsertedAt(getPos(open[i]))]_vars

\* C19 as amended: a step of AStar removes a node of least fCost in open and,
\* among the nodes of that fCost, the one that stands first in the open list
\* as the earlier steps left it.
C19_RemovesFirstInList ==
    [][SearchStepTaken /\ ALGORITHM = "AStar" /\ open # <<>> =>
            LET keys == [i \in 1..Len(open) |-> fCost(open[i])]
                r == RemovedIndex
            IN  /\ keys[r] = MinKey(keys)
                /\ \A i \in 1..Len(open) : keys[i] = keys[r] => r <= i]_vars

\* The next step has a choice where the two rules differ: of two entries of
\* least fCost the one that stands first in open entered it later.
C19_Witness ==
    /\ searching
    /\ ALGORITHM = "AStar"
    /\ open # <<>>
    /\ LET keys == [i \in 1..Len(open) |-> fCost(open[i])]
       IN  \E i, j \in 1..Len(open) :
              /\ i < j
              /\ keys[i] = MinKey(keys)
              /\ keys[j] = MinKey(keys)
              /\ InsertedAt(getPos(open[j])) < InsertedAt(getPos(open[i]))

\* C20: a step of Greedy removes a node of least hCost in open and, among the
\* nodes of that hCost, the one that entered open first; the hCost of every
\* node admitted is the heuristic distance from its coordinates to End.
C20_GreedyRemoval ==
    /\ [](ALGORITHM = "Greedy" =>
            \A list \in {open, closed} : \A i \in 1..Len(list) :
                ~NodeEq(list[i], START) => list[i].hCost = HCost(State, list[i]))
    /\ [][SearchStepTaken /\ ALGORITHM = "Greedy" /\ open # <<>> =>
            LET keys == [i \in 1..Len(open) |-> open[i].hCost]
                r == RemovedIndex
            IN  /\ keys[r] = MinKey(keys)
                /\ \A i \in 1..Len(open) :
                      keys[i] = keys[r] =>
                          InsertedAt(getPos(open[r])) <= InsertedAt(getPos(open[i]))]_vars

\* The sort decides the next step: the first entry of open is not of least
\* hCost, and two entries are.
C20_Witness ==
    /\ searching
    /\ ALGORITHM = "Greedy"
    /\ calls >= 2
    /\ open # <<>>
    /\ LET keys == [i \in 1..Len(open) |-> open[i].hCost]
       IN  /\ keys[1] > MinKey(keys)
           /\ \E i, j \in 1..Len(open) :
                  i < j /\ keys[i] = MinKey(keys) /\ keys[j] = MinKey(keys)

\* C21: a step of DFS removes the node of open that entered it last and a
\* step of BFS the one that entered it first, so BFS removes the nodes in the
\* order they entered; neither algorithm reorders open: the nodes left stay
\* in their order and the new ones follow them.
C21_StackAndQueue ==
    /\ [](ALGORITHM = "BFS" =>
            \A i \in 1..Len(closed) - 1 :
                InsertedAt(getPos(closed[i])) < InsertedAt(getPos(closed[i + 1])))
    /\ [][SearchStepTaken /\ ALGORITHM \in {"DFS", "BFS"} /\ open # <<>> =>
            \A r \in {RemovedIndex} :
            \A entered \in {InsertedAt(getPos(open[r]))} :
            \A left \in {IF ALGORITHM = "DFS" THEN SubSeq(open, 1, Len(open) - 1)
                         ELSE SubSeq(open, 2, Len(open))} :
                /\ \A i \in 1..Len(open) :
                      IF ALGORITHM = "DFS"
                      THEN InsertedAt(getPos(open[i])) <= entered
                      ELSE entered <= InsertedAt(getPos(open[i]))
                /\ Len(open') >= Len(left)
                /\ SubSeq(open', 1, Len(left)) = left
                /\ \A i \in Len(left) + 1..Len(open') :
                      getPos(open'[i]) \notin Coords(open)]_vars

\* DFS has backed up: the node removed last was not admitted by the node
\* removed before it, and other nodes wait in open.
C21_Witness ==
    /\ searching
    /\ ALGORITHM = "DFS"
    /\ Len(closed) >= 3
    /\ Len(open) >= 2
    /\ closed[Len(closed)].parent # getPos(closed[Len(closed) - 1])

\* The pairs <<tile, moves>>: the least number of moves between the tile and
\* End through the tiles of `free`, for every tile End can be reached from;
\* `layer` holds the tiles at d moves, `seen` those at d moves or fewer.
RECURSIVE Spread(_, _, _, _, _)
Spread(layer, seen, free, d, acc) ==
    IF layer = {} THEN acc
    ELSE LET next == {c \in free \ seen : \E b \in layer : Adjacent(b, c, DIAGONAL)}
         IN  Spread(next, seen \cup next, free, d + 1, acc \cup {<<c, d>> : c \in layer})

MovesToEnd == Spread({getPos(END)}, {getPos(END)}, Passable(GRID), 0, {})

\* The distance the heuristic is to give for the tile c.
Estimate(c) ==
    IF DIAGONAL THEN Max(Abs(END.y - c[1]), Abs(END.x - c[2]))
    ELSE Abs(END.y - c[1]) + Abs(END.x - c[2])

\* C22: HCost is max(|dy|, |dx|) with diagonal movement and |dy| + |dx|
\* without; the hCost of a node of open or closed is never more than the
\* least number of moves from its tile to End under the movement of the run,
\* whatever the walls, and the HCost of two tiles one move apart differ
\* by 1 at most (the walls, End and the movement are those of the first state
\* of the run, where the tiles are looked at).
C22_Heuristic ==
    /\ calls = 0 =>
          \A now \in {State} :
              /\ \A c \in Tiles : HCost(now, [y |-> c[1], x |-> c[2]]) = Estimate(c)
              /\ \A a, b \in Passable(GRID) :
                    Adjacent(a, b, DIAGONAL) =>
                        Abs(HCost(now, [y |-> a[1], x |-> a[2]])
                              - HCost(now, [y |-> b[1], x |-> b[2]])) <= 1
    /\ ALGORITHM \in {"DFS", "BFS"} =>
          \A list \in {open, closed} : \A i \in 1..Len(list) : list[i].hCost = 0
    /\ ALGORITHM \in {"Greedy", "AStar"} =>
          \A moves \in {MovesToEnd} :
              \A list \in {open, closed} : \A i \in 1..Len(list) :
                  /\ ~NodeEq(list[i], START) => list[i].hCost = Estimate(getPos(list[i]))
                  /\ \A m \in moves : m[1] = getPos(list[i]) => list[i].hCost <= m[2]

\* With diagonal movement, a node three moves or more from End around walls
\* has entered closed with an hCost lower than that.
C22_Witness ==
    /\ DIAGONAL
    /\ ALGORITHM = "AStar"
    /\ \E i \in 1..Len(closed) : \E m \in MovesToEnd :
          /\ m[1] = getPos(closed[i])
          /\ ~NodeEq(closed[i], START)
          /\ closed[i].hCost < m[2]
          /\ closed[i].hCost >= 2

====
